---- MODULE Spec2Model ----
(***************************************************************************)
(* Property verification engine of the PataBasefiti backend: verification  *)
(* records, the verification history log, the Scheduler, the owner and     *)
(* admin response paths and the expiration Sweeper.                        *)
(*                                                                         *)
(* Time is counted in whole days.  A reliability score is the pair         *)
(* [t, e]: t tenths plus, when e is TRUE, the positive binary rounding     *)
(* residue that IEEE-754 subtraction of 0.1 leaves behind (0.4 - 0.1 is    *)
(* 0.30000000000000004).                                                   *)
(***************************************************************************)
EXTENDS Integers, Sequences, FiniteSets, TLC

VARIABLES props,    \* properties table: id -> row
          recs,     \* verifications table: id -> row
          hist,     \* verification_history table, in insertion order
          now,      \* datetime.utcnow(), in days
          nextVid,  \* next verifications.id
          last,     \* the request most recently served and its outcome
          resp,     \* an owner response being processed step by step
          sweep     \* a Sweeper run being processed step by step

vars == <<props, recs, hist, now, nextVid, last, resp, sweep>>

----------------------------------------------------------------------------
(* Bounds *)

MaxProps == 2
MaxRecs == 2
MaxHist == 2
MaxTime == 4
TickDays == 4

----------------------------------------------------------------------------
(* Program constants *)

SchedulerExpirationDays == 3
RequestExpirationDays == 7
CreateExpirationDays == 7
CutoffDays == 7
DefaultFrequencyDays == 7
VerifiedDays == 30
VerifyLimit == 5
PenaltyTenths == 1
DefaultScoreTenths == 5

NULL == 0 - 1

----------------------------------------------------------------------------
(* Users and roles *)

Users == {"owner", "tenant", "admin"}

is_admin(u) == u = "admin"

PropIds == 1..MaxProps

----------------------------------------------------------------------------
(* Reliability score arithmetic *)

Score(t, e) == [t |-> t, e |-> e]

NullScore == Score(NULL, FALSE)

\* Python truth value of the column: None and 0.0 are both false.
Truthy(s) == s # NullScore /\ s # Score(0, FALSE)

\* x - 0.1 in binary floating point, for the values the column can hold.
FloatSub(s) ==
    IF s.t = 0 THEN Score(NULL, TRUE)     \* below zero
    ELSE Score(s.t - PenaltyTenths, s.e \/ s.t = 4)

\* max(0, x)
Max0(s) == IF s.t < 0 THEN Score(0, FALSE) ELSE s

NewScore(s) ==
    Max0(FloatSub(IF Truthy(s) THEN s ELSE Score(DefaultScoreTenths, FALSE)))



----------------------------------------------------------------------------
(* Rows and small helpers *)

NoUser == "none"

PENDING == "pending"

TerminalStatuses == {"expired", "verified", "rejected", "completed"}

\* Verification(...) row.  The JSON text columns response_data and
\* system_decision are payload no operation reads; they are left out.
VerificationRow(p, type, st, exp) ==
    [property_id |-> p, verification_type |-> type,
     status |-> st, responder_id |-> NoUser, expiration |-> exp]

\* VerificationHistory(...) row; verified_by keeps the actor tag without
\* the user id.  rid is a ghost field naming the verification on whose
\* account the entry was written (0: none).
HistoryRow(p, st, by, rid) ==
    [property_id |-> p, status |-> st, verified_by |-> by, rid |-> rid]

\* Property(...) row as create_property builds it.
PropertyRow(owner, avail, enabled, freq) ==
    [owner_id |-> owner, availability_status |-> avail,
     verification_status |-> "pending", reliability_score |-> NullScore,
     last_verified |-> NULL, expiration_date |-> NULL, expiration_lag |-> 0,
     enabled |-> enabled, frequency_days |-> freq]

Ids == DOMAIN recs

Put(f, k, v) == [x \in (DOMAIN f) \cup {k} |-> IF x = k THEN v ELSE f[x]]

Drop(f, S) == [x \in (DOMAIN f) \ S |-> f[x]]

\* What the request just served was and returned: n is the count a batch
\* job reports, again says that the request before it was the same one.
Outcome(op, result, p, rid) ==
    [op |-> op, result |-> result, pid |-> p, rid |-> rid, n |-> 0,
     again |-> (last.op = op)]

BatchOutcome(op, n) ==
    [op |-> op, result |-> "ok", pid |-> 0, rid |-> 0, n |-> n,
     again |-> (last.op = op)]

Idle == [pc |-> "idle", rid |-> 0, response |-> "", responder |-> NoUser]

SweepIdle == [pc |-> "idle", todo |-> << >>, n |-> 0]

PendingOf(p) == {r \in Ids : recs[r].property_id = p /\ recs[r].status = PENDING}

RECURSIVE SetToSeq(_)
\* The rows of a query result, in primary-key order.
SetToSeq(S) ==
    IF S = {} THEN << >>
    ELSE LET m == CHOOSE x \in S : \A y \in S : x <= y
         IN <<m>> \o SetToSeq(S \ {m})

RECURSIVE Reverse(_)
\* Newest first: ORDER BY requested_at DESC.
Reverse(q) == IF q = << >> THEN << >> ELSE Append(Reverse(Tail(q)), Head(q))

----------------------------------------------------------------------------
(* Inputs *)

\* auto_verification_settings: <<enabled, frequency_days>>
SettingsChoices == {<<TRUE, DefaultFrequencyDays>>, <<FALSE, DefaultFrequencyDays>>,
                    <<TRUE, 3>>}

\* Scores a listed property can have: never set, and 2.7755575615628914e-17,
\* which is what five expirations leave of an unset score
\* (0.5 - 0.1 - 0.1 - 0.1 - 0.1 - 0.1 in binary floating point).
InitScores == {NullScore, Score(0, TRUE)}

Owners == {"owner"}

ManualTypes == {"owner"}

Responses == {"yes", "no"}

Responders == {"owner"}

\* A response text that is neither of the two answers.
BadResponses == {"maybe"}

\* responder_id as the caller of process_verification_response passes it:
\* the owner's id or another user's.
AnyResponders == {"owner", "tenant"}

\* valid_statuses of verify_property
AdminStatuses == {"verified", "rejected", "pending_changes"}

VerifyInputs == {"verified", "rejected", "approved"}

UpdateStatuses == {PENDING}

Availabilities == {"available", "rented"}

ClientExpirations == {NULL, now}

\* What the clock can advance between two reads inside one handler, in
\* clock ticks.
ClockLags == {0, 1}

----------------------------------------------------------------------------
(* Initial state: two listed properties of the same owner.  Their older,   *)
(* finalized verification records and history entries are not tracked;    *)
(* the first property's score and settings are any the program can have   *)
(* left it with.                                                          *)

Init ==
    /\ \E sc \in InitScores, se \in SettingsChoices :
          props = Put(Put(<< >>, 1,
                          [PropertyRow("owner", "available", se[1], se[2])
                              EXCEPT !.reliability_score = sc]),
                      2, PropertyRow("owner", "available", TRUE, DefaultFrequencyDays))
    /\ recs = << >>
    /\ hist = << >>
    /\ now = 0
    /\ nextVid = 1
    /\ last = [op |-> "init", result |-> "ok", pid |-> 0, rid |-> 0, n |-> 0,
               again |-> FALSE]
    /\ resp = Idle
    /\ sweep = SweepIdle


----------------------------------------------------------------------------
(* Property lifecycle *)

FreePropIds == PropIds \ DOMAIN props

\* PropertyService.create_property: the property row and its first
\* pending verification are committed together.
CreateProperty(owner, enabled, freq) ==
    /\ FreePropIds # {}
    /\ nextVid <= MaxRecs
    /\ LET p == CHOOSE x \in FreePropIds : \A y \in FreePropIds : x <= y
       IN /\ props' = Put(props, p, PropertyRow(owner, "available", enabled, freq))
          /\ recs' = Put(recs, nextVid,
                         VerificationRow(p, "automatic", PENDING,
                                         now + CreateExpirationDays))
          /\ last' = Outcome("create_property", "ok", p, nextVid)
    /\ nextVid' = nextVid + 1
    /\ UNCHANGED <<hist, now, resp, sweep>>

\* DELETE /properties/{id}: the ORM cascade removes the property's
\* verifications and verification_history rows.
DeleteProperty(caller, p) ==
    /\ IF p \notin DOMAIN props
       THEN /\ last' = Outcome("delete_property", "not_found", 0, 0)
            /\ UNCHANGED <<props, recs, hist>>
       ELSE IF props[p].owner_id # caller /\ ~is_admin(caller)
       THEN /\ last' = Outcome("delete_property", "forbidden", 0, 0)
            /\ UNCHANGED <<props, recs, hist>>
       ELSE /\ props' = Drop(props, {p})
            /\ recs' = Drop(recs, {r \in Ids : recs[r].property_id = p})
            /\ hist' = SelectSeq(hist, LAMBDA h : h.property_id # p)
            /\ last' = [Outcome("delete_property", "ok", p, 0) EXCEPT
                           !.n = Cardinality({r \in Ids : recs[r].property_id = p})]
    /\ UNCHANGED <<now, nextVid, resp, sweep>>

\* PUT /properties/{id}/status
UpdatePropertyStatus(caller, p, availability) ==
    /\ IF p \notin DOMAIN props
       THEN /\ last' = Outcome("update_property_status", "not_found", 0, 0)
            /\ UNCHANGED <<props, hist>>
       ELSE IF props[p].owner_id # caller /\ ~is_admin(caller)
       THEN /\ last' = Outcome("update_property_status", "forbidden", 0, 0)
            /\ UNCHANGED <<props, hist>>
       ELSE /\ Len(hist) < MaxHist
            /\ props' = [props EXCEPT ![p].availability_status = availability]
            /\ hist' = Append(hist, HistoryRow(p, availability, "owner_", 0))
            /\ last' = Outcome("update_property_status", "ok", p, 0)
    /\ UNCHANGED <<recs, now, nextVid, resp, sweep>>

----------------------------------------------------------------------------
(* Manual verification requests *)

\* POST /verifications/
CreateVerification(caller, p, type, st, exp) ==
    /\ IF p \notin DOMAIN props
       THEN /\ last' = Outcome("create_verification", "not_found", 0, 0)
            /\ UNCHANGED <<recs, nextVid>>
       ELSE IF props[p].owner_id # caller /\ ~is_admin(caller)
       THEN /\ last' = Outcome("create_verification", "forbidden", 0, 0)
            /\ UNCHANGED <<recs, nextVid>>
       ELSE /\ nextVid <= MaxRecs
            /\ recs' = Put(recs, nextVid, VerificationRow(p, type, st, exp))
            /\ nextVid' = nextVid + 1
            /\ last' = Outcome("create_verification", "ok", p, nextVid)
    /\ UNCHANGED <<props, hist, now, resp, sweep>>

\* The database without foreign-key enforcement.
foreign_keys_off(p) == TRUE

\* verifications.property_id REFERENCES properties(id), enforced by the
\* database (PRAGMA foreign_keys=ON): an insert for p is accepted.
foreign_keys(p) == p \in DOMAIN props

\* CRUDVerification.create called on its own: it checks nothing itself, the
\* commit raises IntegrityError when the foreign key fails.
crud_create(p, type, st, exp) ==
    /\ IF ~foreign_keys(p)
       THEN /\ last' = Outcome("crud_create", "integrity_error", 0, 0)
            /\ UNCHANGED <<recs, nextVid>>
       ELSE /\ nextVid <= MaxRecs
            /\ recs' = Put(recs, nextVid, VerificationRow(p, type, st, exp))
            /\ nextVid' = nextVid + 1
            /\ last' = Outcome("crud_create", "ok", p, nextVid)
    /\ UNCHANGED <<props, hist, now, resp, sweep>>

\* CRUDVerification.create_verification called on its own.
crud_create_verification(p, type, expiration_days) ==
    /\ IF ~foreign_keys(p)
       THEN /\ last' = Outcome("crud_create_verification", "integrity_error", 0, 0)
            /\ UNCHANGED <<recs, nextVid>>
       ELSE /\ nextVid <= MaxRecs
            /\ recs' = Put(recs, nextVid,
                           VerificationRow(p, type, PENDING, now + expiration_days))
            /\ nextVid' = nextVid + 1
            /\ last' = Outcome("crud_create_verification", "ok", p, nextVid)
    /\ UNCHANGED <<props, hist, now, resp, sweep>>

\* POST /verifications/request/{property_id}
RequestVerification(caller, p, type) ==
    /\ IF p \notin DOMAIN props
       THEN /\ last' = Outcome("request_verification", "not_found", 0, 0)
            /\ UNCHANGED <<recs, hist, nextVid>>
       ELSE /\ nextVid <= MaxRecs
            /\ Len(hist) < MaxHist
            /\ recs' = Put(recs, nextVid,
                           VerificationRow(p, type, PENDING,
                                           now + RequestExpirationDays))
            /\ hist' = Append(hist, HistoryRow(p, "verification_requested",
                                               "system", nextVid))
            /\ nextVid' = nextVid + 1
            /\ last' = Outcome("request_verification", "ok", p, nextVid)
    /\ UNCHANGED <<props, now, resp, sweep>>


----------------------------------------------------------------------------
(* Owner responses *)

\* process_verification_response, the checks before the first write.
ResponseCheck(rid) ==
    IF rid \notin Ids THEN "not_found"
    ELSE IF recs[rid].status # PENDING THEN "conflict"
    ELSE IF recs[rid].expiration # NULL /\ recs[rid].expiration < now THEN "expired"
    ELSE "ok"

\* VerificationUpdate(status="completed", responder_id=..., response=...)
\* through CRUDVerification.update: the schema has no field `response`,
\* so status and responder_id are the fields written.
CompletedRow(row, responder) ==
    [row EXCEPT !.status = "completed", !.responder_id = responder]

\* new_status of process_verification_response
NewAvailability(response) == IF response = "yes" THEN "available" ELSE "rented"

\* property_crud.update_availability_status
update_availability_status(P, p, st) == [P EXCEPT ![p].availability_status = st]

\* The history entry process_verification_response writes.
ResponseHistory(p, response, responder, rid) ==
    HistoryRow(p, NewAvailability(response), "owner:", rid)

\* VerificationService.process_verification_response, run to completion.
ProcessVerificationResponse(rid, response, responder) ==
    /\ LET res == ResponseCheck(rid)
       IN IF res # "ok"
          THEN /\ last' = Outcome("process_verification_response", res, 0, 0)
               /\ UNCHANGED <<recs, props, hist>>
          ELSE LET p == recs[rid].property_id
               IN /\ Len(hist) < MaxHist
                  /\ recs' = [recs EXCEPT ![rid] = CompletedRow(@, responder)]
                  /\ props' = update_availability_status(props, p, NewAvailability(response))
                  /\ hist' = Append(hist, ResponseHistory(p, response, responder, rid))
                  /\ last' = Outcome("process_verification_response", "ok", p, rid)
    /\ UNCHANGED <<now, nextVid, resp, sweep>>

\* VerificationUpdate(responder_id=..., response_data=...) of
\* POST /verifications/respond/{id}, through CRUDVerification.update.
RespondedRow(row, caller) == [row EXCEPT !.responder_id = caller]

\* POST /verifications/respond/{verification_id}.  The response text goes
\* into response_data and the notes of the history entry only.
RespondToVerification(caller, rid, response) ==
    /\ IF rid \notin Ids
       THEN /\ last' = Outcome("respond_to_verification", "not_found", 0, 0)
            /\ UNCHANGED <<recs, hist>>
       ELSE IF props[recs[rid].property_id].owner_id # caller
       THEN /\ last' = Outcome("respond_to_verification", "forbidden", 0, 0)
            /\ UNCHANGED <<recs, hist>>
       ELSE /\ Len(hist) < MaxHist
            /\ recs' = [recs EXCEPT ![rid] = RespondedRow(@, caller)]
            /\ hist' = Append(hist, HistoryRow(recs[rid].property_id, "owner_responded",
                                               "owner_", rid))
            /\ last' = Outcome("respond_to_verification", "ok", recs[rid].property_id, rid)
    /\ UNCHANGED <<props, now, nextVid, resp, sweep>>

----------------------------------------------------------------------------
(* Admin operations *)

\* CRUDVerification.update with a client-supplied VerificationUpdate that
\* sets status (exclude_unset leaves the other columns alone).
UpdatedRow(row, st) == [row EXCEPT !.status = st]

\* PUT /verifications/{verification_id}
UpdateVerification(caller, rid, st) ==
    /\ IF rid \notin Ids
       THEN /\ last' = Outcome("update_verification", "not_found", 0, 0)
            /\ UNCHANGED recs
       ELSE IF ~is_admin(caller)
       THEN /\ last' = Outcome("update_verification", "forbidden", 0, 0)
            /\ UNCHANGED recs
       ELSE /\ recs' = [recs EXCEPT ![rid] = UpdatedRow(@, st)]
            /\ last' = Outcome("update_verification", "ok", recs[rid].property_id, rid)
    /\ UNCHANGED <<props, hist, now, nextVid, resp, sweep>>

\* CRUDProperty.update_verification_status.  It reads the clock once for
\* last_verified and a second time for expiration_date; lag is what the
\* clock advanced in between, kept in expiration_lag as the part of
\* expiration_date below one day.
update_verification_status(P, p, st, lag) ==
    [P EXCEPT ![p].verification_status = st,
              ![p].last_verified = now,
              ![p].expiration_date =
                  IF st = "verified" THEN now + VerifiedDays ELSE @,
              ![p].expiration_lag =
                  IF st = "verified" THEN lag ELSE @]

\* CRUDVerification.get_property_verifications(property_id, skip=0, limit):
\* ORDER BY requested_at DESC LIMIT limit.  requested_at is the insertion
\* time and is never updated, so the order is that of descending id.
get_property_verifications(p, limit) ==
    LET all == {r \in Ids : recs[r].property_id = p}
    IN {r \in all : Cardinality({y \in all : y > r}) < limit}

\* CRUDVerification.admin_verify, the row it writes.
AdminVerifiedRow(row, st) == [row EXCEPT !.status = st]

RECURSIVE AdminHistory(_, _, _, _)
\* The history entries admin_verify writes for the rows of ids, in order.
AdminHistory(ids, p, st, caller) ==
    IF ids = << >> THEN << >>
    ELSE <<HistoryRow(p, st, "admin_", Head(ids))>>
            \o AdminHistory(Tail(ids), p, st, caller)

\* PUT /admin/properties/{property_id}/verify.  The body parameter `status`
\* hides fastapi's status module, so building the 404 and the 400 answer
\* raises AttributeError: both refusals end as a server error.
VerifyProperty(caller, p, st, lag) ==
    /\ IF ~is_admin(caller)
       THEN /\ last' = Outcome("verify_property", "forbidden", 0, 0)
            /\ UNCHANGED <<props, recs, hist>>
       ELSE IF p \notin DOMAIN props
       THEN /\ last' = Outcome("verify_property", "error", 0, 0)
            /\ UNCHANGED <<props, recs, hist>>
       ELSE IF st \notin AdminStatuses
       THEN /\ last' = Outcome("verify_property", "error", 0, 0)
            /\ UNCHANGED <<props, recs, hist>>
       ELSE LET hit == {r \in get_property_verifications(p, VerifyLimit) :
                                recs[r].status = PENDING}
            IN    /\ Len(hist) + 1 + Cardinality(hit) <= MaxHist
                  /\ props' = update_verification_status(props, p, st, lag)
                  /\ recs' = [r \in Ids |-> IF r \in hit
                                            THEN AdminVerifiedRow(recs[r], st)
                                            ELSE recs[r]]
                  /\ hist' = Append(hist, HistoryRow(p, st, "admin_", 0))
                                \o AdminHistory(Reverse(SetToSeq(hit)), p, st, caller)
                  /\ last' = Outcome("verify_property", "ok", p,
                                     IF hit = {} THEN 0
                                     ELSE CHOOSE x \in hit : \A y \in hit : x <= y)
    /\ UNCHANGED <<now, nextVid, resp, sweep>>


----------------------------------------------------------------------------
(* Scheduler *)

\* prop.auto_verification_settings_json: the settings column as a dict.
auto_verification_settings_json(p) ==
    [enabled |-> props[p].enabled, frequency_days |-> props[p].frequency_days]

\* settings.get("enabled", True) of the Scheduler loop
AutoEnabled(p) == auto_verification_settings_json(p).enabled

\* _get_properties_due_for_verification: the query with the default
\* cutoff, then the per-property frequency filter.
PropertiesDue ==
    {p \in DOMAIN props :
        /\ props[p].availability_status = "available"
        /\ (props[p].last_verified = NULL
              \/ props[p].last_verified < now - CutoffDays)
        /\ (props[p].last_verified = NULL
              \/ props[p].last_verified
                    < now - auto_verification_settings_json(p).frequency_days)}

\* The loop without its skip of disabled properties.
ToScheduleAll == PropertiesDue

\* The properties the Scheduler loop creates a record for.
ToSchedule == {p \in PropertiesDue : AutoEnabled(p)}

RECURSIVE Scheduled(_, _, _)
\* The verification rows after the loop has created one per property.
Scheduled(R, ps, vid) ==
    IF ps = << >> THEN R
    ELSE Scheduled(Put(R, vid,
                       VerificationRow(Head(ps), "automatic", PENDING,
                                       now + SchedulerExpirationDays)),
                   Tail(ps), vid + 1)

RECURSIVE AttemptedRolledBack(_, _)
\* The loop undoing the record of the property whose notification raises.
AttemptedRolledBack(ps, fails) ==
    IF ps = << >> \/ Head(ps) \in fails THEN << >>
    ELSE <<Head(ps)>> \o AttemptedRolledBack(Tail(ps), fails)

RECURSIVE Attempted(_, _)
\* The properties whose record the loop has created and committed when it
\* ends: verification_crud.create commits before
\* notification_service.send_verification_request is called, the call is
\* not inside a try, and so the first notification that raises ends the
\* loop after the record of its property.
Attempted(ps, fails) ==
    IF ps = << >> THEN << >>
    ELSE IF Head(ps) \in fails THEN <<Head(ps)>>
    ELSE <<Head(ps)>> \o Attempted(Tail(ps), fails)

\* VerificationService.schedule_automatic_verifications, where fails is the
\* set of properties for which send_verification_request raises
\* (settings.FRONTEND_URL, which it reads, is not among the Settings of
\* core/config.py).
schedule_automatic_verifications(fails) ==
    LET done == Attempted(SetToSeq(ToSchedule), fails)
        raised == \E i \in DOMAIN done : done[i] \in fails
    IN /\ nextVid + Len(done) - 1 <= MaxRecs
       /\ recs' = Scheduled(recs, done, nextVid)
       /\ nextVid' = nextVid + Len(done)
       /\ last' = IF raised
                  THEN [Outcome("schedule_automatic_verifications", "error",
                                done[Len(done)], nextVid + Len(done) - 1)
                           EXCEPT !.n = Len(done)]
                  ELSE BatchOutcome("schedule_automatic_verifications", Len(done))
       /\ UNCHANGED <<props, hist, now, resp, sweep>>

\* A Scheduler run in which every notification call returns.
ScheduleAutomaticVerifications == schedule_automatic_verifications({})

----------------------------------------------------------------------------
(* Sweeper *)

\* The query without its filter on status.
get_expired_verifications ==
    {r \in Ids : /\ recs[r].expiration # NULL
                 /\ recs[r].expiration < now}

\* The query with its comparison of expiration and now turned around.
get_unexpired_pending_verifications ==
    {r \in Ids : /\ recs[r].status = PENDING
                 /\ recs[r].expiration # NULL
                 /\ recs[r].expiration > now}

\* CRUDVerification.get_expired_pending_verifications
get_expired_pending_verifications ==
    {r \in Ids : /\ recs[r].status = PENDING
                 /\ recs[r].expiration # NULL
                 /\ recs[r].expiration < now}

\* VerificationUpdate(status="expired", system_decision=...) through
\* CRUDVerification.update.
ExpiredRow(row) == [row EXCEPT !.status = "expired"]

\* The loop body writing its history entry over the newest entry instead of
\* inserting a new one.
SweepOneOverwriting(db, r, p) ==
    [recs |-> [db.recs EXCEPT ![r] = ExpiredRow(@)],
     props |-> IF p \in DOMAIN db.props
               THEN [db.props EXCEPT ![p].reliability_score = NewScore(@)]
               ELSE db.props,
     hist |-> IF p \notin DOMAIN db.props THEN db.hist
              ELSE IF db.hist = << >>
              THEN <<HistoryRow(p, "unverified", "system:expiration", r)>>
              ELSE [db.hist EXCEPT ![Len(db.hist)] =
                       HistoryRow(p, "unverified", "system:expiration", r)]]

\* One iteration of the Sweeper loop on record r, which belongs to p.
SweepOne(db, r, p) ==
    [recs |-> [db.recs EXCEPT ![r] = ExpiredRow(@)],
     props |-> IF p \in DOMAIN db.props
               THEN [db.props EXCEPT ![p].reliability_score = NewScore(@)]
               ELSE db.props,
     hist |-> IF p \in DOMAIN db.props
              THEN Append(db.hist, HistoryRow(p, "unverified",
                                              "system:expiration", r))
              ELSE db.hist]

RECURSIVE SweepAll(_, _)
SweepAll(db, rs) ==
    IF rs = << >> THEN db
    ELSE SweepAll(SweepOne(db, Head(rs), db.recs[Head(rs)].property_id), Tail(rs))

RECURSIVE Before(_, _)
\* The records the loop gets through: those before the record whose
\* update raises.  The loop body is not inside a try.
Before(rs, fail) ==
    IF rs = << >> \/ Head(rs) = fail THEN << >>
    ELSE <<Head(rs)>> \o Before(Tail(rs), fail)

\* VerificationService.process_expired_verifications, run to its end.
\* fail is the record for which verification_crud.update raises on commit
\* (0: none does), which ends the run with what the records before it
\* have committed.
process_expired_verifications(fail) ==
    LET due == get_expired_pending_verifications
        done == Before(SetToSeq(due), fail)
    IN /\ Len(hist) + Len(done) <= MaxHist
       /\ LET db == SweepAll([recs |-> recs, props |-> props, hist |-> hist], done)
          IN /\ recs' = db.recs
             /\ props' = db.props
             /\ hist' = db.hist
       /\ last' = IF fail \in due
                  THEN [Outcome("process_expired_verifications", "error", 0, fail)
                           EXCEPT !.n = Len(done)]
                  ELSE BatchOutcome("process_expired_verifications", Len(done))
       /\ UNCHANGED <<now, nextVid, resp, sweep>>

\* A Sweeper run in which no statement raises.
ProcessExpiredVerifications == process_expired_verifications(0)

----------------------------------------------------------------------------
(* Time *)

Tick ==
    /\ now + TickDays <= MaxTime
    /\ now' = now + TickDays
    /\ last' = Outcome("tick", "ok", 0, 0)
    /\ UNCHANGED <<props, recs, hist, nextVid, resp, sweep>>

----------------------------------------------------------------------------
(* Requests served one at a time *)

Next ==
    \/ \E o \in Owners, se \in SettingsChoices :
          CreateProperty(o, se[1], se[2])
    \/ \E p \in PropIds, ty \in ManualTypes, e \in ClientExpirations :
          crud_create(p, ty, PENDING, e)
    \/ \E p \in PropIds, ty \in ManualTypes :
          crud_create_verification(p, ty, SchedulerExpirationDays)
    \/ \E u \in Users, p \in PropIds : DeleteProperty(u, p)
    \/ \E u \in Users, p \in PropIds, a \in Availabilities :
          UpdatePropertyStatus(u, p, a)
    \/ \E u \in Users, p \in PropIds, ty \in ManualTypes, e \in ClientExpirations :
          CreateVerification(u, p, ty, PENDING, e)
    \/ \E u \in Users, p \in PropIds, ty \in ManualTypes :
          RequestVerification(u, p, ty)
    \/ \E rid \in 1..MaxRecs, a \in Responses, u \in AnyResponders :
          ProcessVerificationResponse(rid, a, u)
    \/ \E u \in Users, rid \in 1..MaxRecs, a \in Responses :
          RespondToVerification(u, rid, a)
    \/ \E u \in Users, rid \in 1..MaxRecs, st \in UpdateStatuses :
          UpdateVerification(u, rid, st)
    \/ \E u \in Users, p \in PropIds, st \in VerifyInputs, lag \in ClockLags :
          VerifyProperty(u, p, st, lag)
    \/ \E fails \in SUBSET PropIds : schedule_automatic_verifications(fails)
    \/ \E fail \in 0..MaxRecs : process_expired_verifications(fail)
    \/ Tick

Spec == Init /\ [][Next]_vars

----------------------------------------------------------------------------
(* The same handlers, one commit at a time.  process_verification_response *)
(* and process_expired_verifications commit after each write, so another   *)
(* request, or a failure, can fall between two of their writes.            *)

\* Lines 41-51: load the record and check it.
RespBegin(rid, response, responder) ==
    /\ resp.pc = "idle"
    /\ LET res == ResponseCheck(rid)
       IN IF res # "ok"
          THEN /\ last' = Outcome("process_verification_response", res, 0, 0)
               /\ resp' = resp
          ELSE /\ resp' = [pc |-> "checked", rid |-> rid, response |-> response,
                           responder |-> responder]
               /\ last' = last
    /\ UNCHANGED <<props, recs, hist, now, nextVid, sweep>>

\* Lines 54-59: the record is updated from the object loaded by RespBegin
\* and committed.
RespUpdateRecord ==
    /\ resp.pc = "checked"
    /\ recs' = [recs EXCEPT ![resp.rid] = CompletedRow(@, resp.responder)]
    /\ resp' = [resp EXCEPT !.pc = "recorded"]
    /\ UNCHANGED <<props, hist, now, nextVid, last, sweep>>

\* Lines 62-71: the property's availability is updated and committed.
RespUpdateProperty ==
    /\ resp.pc = "recorded"
    /\ props' = update_availability_status(props, recs[resp.rid].property_id,
                                           NewAvailability(resp.response))
    /\ resp' = [resp EXCEPT !.pc = "propertied"]
    /\ UNCHANGED <<recs, hist, now, nextVid, last, sweep>>

\* Lines 74-81: the history entry is created and committed.
RespAddHistory ==
    /\ resp.pc = "propertied"
    /\ Len(hist) < MaxHist
    /\ hist' = Append(hist, ResponseHistory(recs[resp.rid].property_id,
                                            resp.response, resp.responder, resp.rid))
    /\ last' = Outcome("process_verification_response", "ok",
                       recs[resp.rid].property_id, resp.rid)
    /\ resp' = Idle
    /\ UNCHANGED <<props, recs, now, nextVid, sweep>>

\* A database error or a crash after the first commit: the handler has no
\* try/except and nothing undoes what is already committed.
RespFail ==
    /\ resp.pc \in {"recorded", "propertied"}
    /\ last' = Outcome("process_verification_response", "error",
                       recs[resp.rid].property_id, resp.rid)
    /\ resp' = Idle
    /\ UNCHANGED <<props, recs, hist, now, nextVid, sweep>>

\* Line 192: the Sweeper loads the records it will process.
SweepBegin ==
    /\ sweep.pc = "idle"
    /\ sweep' = [pc |-> "loop",
                 todo |-> SetToSeq(get_expired_pending_verifications),
                 n |-> Cardinality(get_expired_pending_verifications)]
    /\ UNCHANGED <<props, recs, hist, now, nextVid, last, resp>>

\* Lines 195-221: one iteration of the loop, on the object loaded by
\* SweepBegin.
SweepStep ==
    /\ sweep.pc = "loop"
    /\ sweep.todo # << >>
    /\ Len(hist) < MaxHist
    /\ LET r == Head(sweep.todo)
           db == SweepOne([recs |-> recs, props |-> props, hist |-> hist],
                          r, recs[r].property_id)
       IN /\ recs' = db.recs
          /\ props' = db.props
          /\ hist' = db.hist
    /\ sweep' = [sweep EXCEPT !.todo = Tail(@)]
    /\ UNCHANGED <<now, nextVid, last, resp>>

\* Lines 223-228: the loop is over and the count is returned.
SweepEnd ==
    /\ sweep.pc = "loop"
    /\ sweep.todo = << >>
    /\ last' = BatchOutcome("process_expired_verifications", sweep.n)
    /\ sweep' = SweepIdle
    /\ UNCHANGED <<props, recs, hist, now, nextVid, resp>>

----------------------------------------------------------------------------
(* Specifications.  Spec has every request; each of the others keeps the   *)
(* requests of one part of the verification engine, from the same initial *)
(* states.                                                                *)

\* Requests, owner responses and the two background jobs.
NextOwner ==
    \/ \E u \in Users, p \in PropIds, ty \in ManualTypes, e \in ClientExpirations :
          CreateVerification(u, p, ty, PENDING, e)
    \/ \E u \in Users, p \in PropIds, ty \in ManualTypes :
          RequestVerification(u, p, ty)
    \/ \E rid \in 1..MaxRecs, a \in Responses, u \in AnyResponders :
          ProcessVerificationResponse(rid, a, u)
    \/ \E u \in Users, rid \in 1..MaxRecs, a \in Responses :
          RespondToVerification(u, rid, a)
    \/ ScheduleAutomaticVerifications
    \/ ProcessExpiredVerifications
    \/ Tick

SpecOwner == Init /\ [][NextOwner]_vars

\* Requests, owner responses and the admin operations.
NextAdmin ==
    \/ \E u \in Users, p \in PropIds, ty \in ManualTypes, e \in ClientExpirations :
          CreateVerification(u, p, ty, PENDING, e)
    \/ \E rid \in 1..MaxRecs, a \in Responses, u \in Responders :
          ProcessVerificationResponse(rid, a, u)
    \/ \E u \in Users, rid \in 1..MaxRecs, st \in UpdateStatuses :
          UpdateVerification(u, rid, st)
    \/ \E u \in Users, p \in PropIds, st \in VerifyInputs, lag \in ClockLags :
          VerifyProperty(u, p, st, lag)

SpecAdmin == Init /\ [][NextAdmin]_vars

\* Property lifecycle, admin verification and the Scheduler.
NextSched ==
    \/ \E o \in Owners, se \in SettingsChoices :
          CreateProperty(o, se[1], se[2])
    \/ \E u \in Users, p \in PropIds : DeleteProperty(u, p)
    \/ \E u \in Users, p \in PropIds, a \in Availabilities :
          UpdatePropertyStatus(u, p, a)
    \/ \E u \in Users, p \in PropIds, st \in VerifyInputs, lag \in ClockLags :
          VerifyProperty(u, p, st, lag)
    \/ ScheduleAutomaticVerifications
    \/ Tick

SpecSched == Init /\ [][NextSched]_vars

\* Property lifecycle and every way of creating a verification record.
NextStore ==
    \/ \E o \in Owners, se \in SettingsChoices :
          CreateProperty(o, se[1], se[2])
    \/ \E u \in Users, p \in PropIds : DeleteProperty(u, p)
    \/ \E u \in Users, p \in PropIds, a \in Availabilities :
          UpdatePropertyStatus(u, p, a)
    \/ \E u \in Users, p \in PropIds, ty \in ManualTypes, e \in ClientExpirations :
          CreateVerification(u, p, ty, PENDING, e)
    \/ \E u \in Users, p \in PropIds, ty \in ManualTypes :
          RequestVerification(u, p, ty)
    \/ \E p \in PropIds, ty \in ManualTypes, e \in ClientExpirations :
          crud_create(p, ty, PENDING, e)
    \/ \E p \in PropIds, ty \in ManualTypes :
          crud_create_verification(p, ty, SchedulerExpirationDays)

SpecStore == Init /\ [][NextStore]_vars

\* Records with a deadline, owner responses, the Sweeper and time, with the
\* Sweeper run again and again and time going on.
NextLive ==
    \/ \E u \in Users, p \in PropIds, ty \in ManualTypes, e \in ClientExpirations :
          CreateVerification(u, p, ty, PENDING, e)
    \/ \E rid \in 1..MaxRecs, a \in Responses, u \in Responders :
          ProcessVerificationResponse(rid, a, u)
    \/ ScheduleAutomaticVerifications
    \/ ProcessExpiredVerifications
    \/ Tick

SpecLive ==
    /\ Init
    /\ [][NextLive]_vars
    /\ WF_vars(ProcessExpiredVerifications)
    /\ WF_vars(Tick)

\* Every request that writes verification history, made by the caller who
\* is allowed to make it, and the deletion of a property.
NextHist ==
    \/ \E p \in PropIds, ty \in ManualTypes : RequestVerification("owner", p, ty)
    \/ \E rid \in 1..MaxRecs, a \in Responses :
          ProcessVerificationResponse(rid, a, "owner")
    \/ \E rid \in 1..MaxRecs, a \in Responses :
          RespondToVerification("owner", rid, a)
    \/ \E rid \in 1..MaxRecs, st \in UpdateStatuses :
          UpdateVerification("admin", rid, st)
    \/ \E p \in PropIds, st \in AdminStatuses :
          VerifyProperty("admin", p, st, 0)
    \/ \E p \in PropIds, a \in Availabilities :
          UpdatePropertyStatus("owner", p, a)
    \/ \E p \in PropIds : DeleteProperty("owner", p)
    \/ ScheduleAutomaticVerifications
    \/ ProcessExpiredVerifications
    \/ Tick

SpecHist == Init /\ [][NextHist]_vars

\* The two background jobs with the failures their loop bodies can meet.
NextBatch ==
    \/ \E p \in PropIds, ty \in ManualTypes, e \in ClientExpirations :
          CreateVerification("owner", p, ty, PENDING, e)
    \/ \E p \in PropIds, a \in Availabilities :
          UpdatePropertyStatus("owner", p, a)
    \/ \E fails \in SUBSET PropIds : schedule_automatic_verifications(fails)
    \/ \E fail \in 0..MaxRecs : process_expired_verifications(fail)
    \/ Tick

SpecBatch == Init /\ [][NextBatch]_vars

\* Responses and admin verifications with values inside and outside the
\* allowed sets, made by the caller who is allowed to make them.
NextInput ==
    \/ \E p \in PropIds, ty \in ManualTypes, e \in ClientExpirations :
          CreateVerification("owner", p, ty, PENDING, e)
    \/ \E rid \in 1..MaxRecs, a \in Responses \cup BadResponses :
          ProcessVerificationResponse(rid, a, "owner")
    \/ \E rid \in 1..MaxRecs, a \in Responses \cup BadResponses :
          RespondToVerification("owner", rid, a)
    \/ \E p \in PropIds, st \in VerifyInputs :
          VerifyProperty("admin", p, st, 0)
    \/ Tick

SpecInput == Init /\ [][NextInput]_vars

\* One more record than verify_property looks at.
ManyRecs == VerifyLimit + 1

\* A property that has collected ManyRecs verification records, each of
\* them still pending or completed by its owner; the history entries
\* written so far are not tracked.
InitMany ==
    /\ \E sc \in InitScores, se \in SettingsChoices :
          props = Put(Put(<< >>, 1,
                          [PropertyRow("owner", "available", se[1], se[2])
                              EXCEPT !.reliability_score = sc]),
                      2, PropertyRow("owner", "available", TRUE, DefaultFrequencyDays))
    /\ \E done \in SUBSET (1..ManyRecs) :
          recs = [r \in 1..ManyRecs |->
                     IF r \in done
                     THEN CompletedRow(VerificationRow(1, "owner", PENDING,
                                                       CreateExpirationDays), "owner")
                     ELSE VerificationRow(1, "owner", PENDING, CreateExpirationDays)]
    /\ hist = << >>
    /\ now = 0
    /\ nextVid = ManyRecs + 1
    /\ last = [op |-> "init", result |-> "ok", pid |-> 0, rid |-> 0, n |-> 0,
               again |-> FALSE]
    /\ resp = Idle
    /\ sweep = SweepIdle

\* Owner responses and admin verification on a property with many records.
NextMany ==
    \/ \E rid \in 1..ManyRecs, a \in Responses :
          ProcessVerificationResponse(rid, a, "owner")
    \/ \E p \in PropIds, st \in AdminStatuses :
          VerifyProperty("admin", p, st, 0)

SpecMany == InitMany /\ [][NextMany]_vars

\* Owner responses and the Sweeper interleaved commit by commit.
NextConc ==
    \/ \E u \in Users, p \in PropIds, ty \in ManualTypes, e \in ClientExpirations :
          CreateVerification(u, p, ty, PENDING, e)
    \/ \E rid \in 1..MaxRecs, a \in Responses, u \in Responders :
          RespBegin(rid, a, u)
    \/ RespUpdateRecord
    \/ RespUpdateProperty
    \/ RespAddHistory
    \/ RespFail
    \/ SweepBegin
    \/ SweepStep
    \/ SweepEnd
    \/ Tick

SpecConc == Init /\ [][NextConc]_vars

----------------------------------------------------------------------------
(* Properties *)

ResponseOps == {"process_verification_response", "respond_to_verification"}

SWEEP == "process_expired_verifications"

\* The verifications on whose account history holds an entry written by `by`.
WrittenFor(by) == {hist[i].rid : i \in {j \in DOMAIN hist : hist[j].verified_by = by}}

\* C1: a response to a record that is not pending, on either owner path,
\* does not succeed and leaves the records, the properties and the history
\* as they were.
RespondNonPendingRefused ==
    [][\A r \in Ids, a \in Responses, u \in Users :
          (/\ recs[r].status # PENDING
           /\ \/ ProcessVerificationResponse(r, a, u)
              \/ RespondToVerification(u, r, a))
          => /\ last'.result # "ok"
             /\ UNCHANGED <<recs, props, hist>>]_vars

\* C2: the status of a record that is expired, verified, rejected or
\* completed never changes again.
TerminalNeverReopened ==
    [][\A r \in Ids \cap DOMAIN recs' :
          recs[r].status \in TerminalStatuses
          => recs'[r].status = recs[r].status]_vars

\* x lowered by the penalty and floored at 0, an unset x counting as 0.5.
Lowered(s) ==
    Max0(FloatSub(IF s = NullScore THEN Score(DefaultScoreTenths, FALSE) ELSE s))

RECURSIVE LoweredTimes(_, _)
LoweredTimes(s, k) == IF k = 0 THEN s ELSE LoweredTimes(Lowered(s), k - 1)

\* C3: a Sweeper run sets every pending record past its expiration to
\* expired and lowers its property's score by the penalty once per such
\* record, floored at 0.
SweepLowersScore ==
    [][ProcessExpiredVerifications
       => \A r \in get_expired_pending_verifications :
             LET p == recs[r].property_id
                 k == Cardinality({x \in get_expired_pending_verifications :
                                      recs[x].property_id = p})
             IN /\ recs'[r].status = "expired"
                /\ props'[p].reliability_score
                      = LoweredTimes(props[p].reliability_score, k)]_vars

\* C4: a Sweeper run that directly follows a Sweeper run changes no
\* record, no property and no history entry.
SweeperIdempotent ==
    [][(last.op = SWEEP /\ ProcessExpiredVerifications)
       => UNCHANGED <<recs, props, hist>>]_vars

\* Two Sweeper runs in a row, the first of which had a record to expire.
SweptTwice ==
    /\ last.op = SWEEP
    /\ last.again
    /\ \E i \in DOMAIN hist : hist[i].verified_by = "system:expiration"

\* C5: no record has both the effects of an owner response and the effects
\* of an expiration applied to it.
OneFinalizer == WrittenFor("owner:") \cap WrittenFor("system:expiration") = {}

\* C6: when no response is in flight, a record carries a responder exactly
\* when the history entry of that response exists: the effects of a
\* response are all visible or none is.
ResponseAllOrNothing ==
    resp.pc = "idle"
    => \A r \in Ids : (recs[r].responder_id # NoUser) <=> (r \in WrittenFor("owner:"))

RespondedNotPending ==
    [][(/\ last'.op \in ResponseOps
        /\ last'.result = "ok"
        /\ recs[last'.rid].status = PENDING)
       => recs'[last'.rid].status # PENDING]_vars

\* C9: no property has more than one pending verification record.
AtMostOnePending == \A p \in DOMAIN props : Cardinality(PendingOf(p)) <= 1

\* C10: a Scheduler run creates no record for a property whose settings
\* have enabled = false.
DisabledNeverScheduled ==
    [][ScheduleAutomaticVerifications
       => \A r \in DOMAIN recs' \ Ids : AutoEnabled(recs'[r].property_id)]_vars

\* The Scheduler has just created a record while a disabled property was due.
DisabledSkipped ==
    /\ last.op = "schedule_automatic_verifications"
    /\ last.n >= 1
    /\ \E p \in PropertiesDue : ~AutoEnabled(p)

\* Due as the property's own settings say: available, enabled, and never
\* verified or verified more than frequency_days ago.
Eligible(p) ==
    /\ props[p].availability_status = "available"
    /\ props[p].enabled
    /\ \/ props[p].last_verified = NULL
       \/ props[p].last_verified < now - props[p].frequency_days

\* C11: a Scheduler run creates exactly one automatic, pending record
\* expiring in 3 days for every property that is available, enabled and
\* due by its own frequency_days, and none for any other property.
ScheduleExactlyDue ==
    [][ScheduleAutomaticVerifications
       => \A p \in DOMAIN props :
             LET new == {r \in DOMAIN recs' \ Ids : recs'[r].property_id = p}
             IN IF Eligible(p)
                THEN /\ Cardinality(new) = 1
                     /\ \A r \in new :
                           recs'[r] = VerificationRow(p, "automatic", PENDING,
                                                      now + SchedulerExpirationDays)
                ELSE new = {}]_vars

\* C12: an admin verification with status verified sets the property's
\* verification_status to verified, last_verified to the current time and
\* expiration_date to exactly last_verified + 30 days.
VerifiedExpiresIn30Days ==
    [][\A p \in DOMAIN props :
          (/\ last'.op = "verify_property"
           /\ last'.result = "ok"
           /\ last'.pid = p
           /\ props'[p].verification_status = "verified")
          => /\ props'[p].last_verified = now
             /\ props'[p].expiration_date = props'[p].last_verified + VerifiedDays
             /\ props'[p].expiration_lag = 0]_vars

CreationOps ==
    {"create_verification", "request_verification", "crud_create",
     "crud_create_verification"}

\* C13: creating a verification record for a property_id that references no
\* property fails with NotFound on every creation path and persists
\* nothing.
MissingPropertyNotFound ==
    [][\A u \in Users, p \in PropIds \ DOMAIN props, ty \in ManualTypes,
          e \in ClientExpirations :
          (\/ CreateVerification(u, p, ty, PENDING, e)
           \/ RequestVerification(u, p, ty)
           \/ crud_create(p, ty, PENDING, e)
           \/ crud_create_verification(p, ty, SchedulerExpirationDays))
          => /\ last'.result = "not_found"
             /\ UNCHANGED <<recs, hist>>]_vars

\* The availability an owner's answer reports.
Reported(response) ==
    IF response \in {"yes", "available"} THEN "available" ELSE "rented"

\* C14: after a successful owner response, on either owner path, the
\* property's availability_status is the availability the owner reported
\* and its verification_status is unchanged.
ResponseSetsAvailability ==
    [][\A r \in Ids, a \in Responses, u \in Users :
          (/\ recs[r].status = PENDING
           /\ \/ ProcessVerificationResponse(r, a, u)
              \/ RespondToVerification(u, r, a)
           /\ last'.result = "ok")
          => LET p == recs[r].property_id
             IN /\ props'[p].availability_status = Reported(a)
                /\ props'[p].verification_status = props[p].verification_status]_vars

\* C15: an owner response by a caller who is not the owner of the record's
\* property, and an admin update or admin verification by a caller who is
\* not an admin, is rejected and changes no record, no property and no
\* history entry.
UnauthorizedRejected ==
    [][\A r \in Ids, p \in PropIds, u \in Users, a \in Responses,
          st \in UpdateStatuses \cup VerifyInputs, lag \in ClockLags :
          (\/ /\ u # props[recs[r].property_id].owner_id
              /\ \/ ProcessVerificationResponse(r, a, u)
                 \/ RespondToVerification(u, r, a)
           \/ /\ ~is_admin(u)
              /\ \/ UpdateVerification(u, r, st)
                 \/ VerifyProperty(u, p, st, lag))
          => /\ last'.result # "ok"
             /\ UNCHANGED <<recs, props, hist>>]_vars

\* C16: a manual verification request by a caller who is neither the
\* property's owner nor an admin creates no record and no history entry,
\* on POST /verifications/ and on POST /verifications/request/{property_id}.
ManualRequestAuthorized ==
    [][\A u \in Users, p \in DOMAIN props, ty \in ManualTypes,
          e \in ClientExpirations :
          (/\ u # props[p].owner_id
           /\ ~is_admin(u)
           /\ \/ CreateVerification(u, p, ty, PENDING, e)
              \/ RequestVerification(u, p, ty))
          => UNCHANGED <<recs, hist>>]_vars

IsPending(r) == IF r \in Ids THEN recs[r].status = PENDING ELSE FALSE

Due(r) ==
    /\ recs[r].status = PENDING
    /\ recs[r].expiration # NULL
    /\ recs[r].expiration < now

\* C18: the Sweeper changes a record only if it is pending and its
\* expiration is strictly before now, and a property with no such record
\* keeps its reliability_score and gets no history entry from the Sweeper.
SweeperOnlyTouchesDue ==
    [][(ProcessExpiredVerifications \/ SweepStep)
       => /\ \A r \in Ids : recs'[r] # recs[r] => Due(r)
          /\ \A p \in DOMAIN props :
                (\A r \in Ids : recs[r].property_id = p => ~Due(r))
                => /\ props'[p] = props[p]
                   /\ \A i \in DOMAIN hist' \ DOMAIN hist :
                         hist'[i].property_id # p]_vars

\* C19: every verification record and every history entry references an
\* existing property.
ReferencesExist ==
    /\ \A r \in Ids : recs[r].property_id \in DOMAIN props
    /\ \A i \in DOMAIN hist : hist[i].property_id \in DOMAIN props

\* A property that had verification records has just been deleted, and
\* another property's records and history are still there.
DeletedWithRecords ==
    /\ last.op = "delete_property"
    /\ last.result = "ok"
    /\ last.n >= 1
    /\ Ids # {}
    /\ hist # << >>

\* C20: verification history is append-only: across any step that deletes
\* no property, the earlier log is a prefix of the later log.
HistoryAppendOnly ==
    [][DOMAIN props \subseteq DOMAIN props'
       => /\ Len(hist) <= Len(hist')
          /\ SubSeq(hist', 1, Len(hist)) = hist]_vars

\* The Sweeper has just added its entry to a log that already had one.
SweeperAppended ==
    /\ last.op = SWEEP
    /\ last.n >= 1
    /\ Len(hist) >= 2
    /\ hist[Len(hist)].verified_by = "system:expiration"

\* An operation has changed something about property p: the status of one
\* of its verification records, its availability_status or its
\* verification_status.
StateChanged(p) ==
    \/ props'[p].availability_status # props[p].availability_status
    \/ props'[p].verification_status # props[p].verification_status
    \/ \E r \in Ids \cap DOMAIN recs' :
          /\ recs[r].property_id = p
          /\ recs'[r].status # recs[r].status

\* C21: an operation that changes the status of a verification record, or
\* a property's availability_status or verification_status, appends at
\* least one history entry for that property.
StateChangeLogged ==
    [][\A p \in DOMAIN props \cap DOMAIN props' :
          StateChanged(p)
          => \E i \in DOMAIN hist' \ DOMAIN hist : hist'[i].property_id = p]_vars

\* The first property of a Scheduler run whose notification raises.
FirstFailing(fails) ==
    CHOOSE p \in ToSchedule \cap fails : \A q \in ToSchedule \cap fails : p <= q

\* C22: when the owner notification fails during a Scheduler run, the
\* pending record created for that property before the notification
\* attempt is persisted.
NotificationFailureKeepsRecord ==
    [][\A fails \in SUBSET PropIds :
          (schedule_automatic_verifications(fails) /\ ToSchedule \cap fails # {})
          => \E r \in DOMAIN recs' \ Ids :
                recs'[r] = VerificationRow(FirstFailing(fails), "automatic", PENDING,
                                           now + SchedulerExpirationDays)]_vars

\* A Scheduler run has just ended with a notification that raised, and the
\* record created before that notification is there, pending.
NotificationFailedRecordKept ==
    /\ last.op = "schedule_automatic_verifications"
    /\ last.result = "error"
    /\ last.rid \in Ids
    /\ recs[last.rid].property_id = last.pid
    /\ recs[last.rid].status = PENDING

\* C23: a failure on one item does not abort a batch: a Scheduler run
\* creates a record for every eligible property even if a notification
\* fails, and a Sweeper run expires every due record other than the one
\* whose update fails.
BatchNotAborted ==
    [][/\ \A fails \in SUBSET PropIds :
             schedule_automatic_verifications(fails)
             => \A p \in ToSchedule :
                   \E r \in DOMAIN recs' \ Ids : recs'[r].property_id = p
       /\ \A fail \in 0..MaxRecs :
             process_expired_verifications(fail)
             => \A r \in get_expired_pending_verifications \ {fail} :
                   recs'[r].status = "expired"]_vars

\* C24: a response whose value is outside the allowed set for the actor is
\* rejected with a validation error and changes no record, property or
\* history entry: an owner response that is not one of the two answers on
\* a record that can be answered, and an admin verification with a status
\* that is not verified, rejected or pending_changes.
InvalidValueRejected ==
    [][/\ \A r \in Ids, a \in BadResponses :
             (/\ ResponseCheck(r) = "ok"
              /\ \/ ProcessVerificationResponse(r, a, "owner")
                 \/ RespondToVerification("owner", r, a))
             => /\ last'.result = "invalid"
                /\ UNCHANGED <<recs, props, hist>>
       /\ \A p \in DOMAIN props, st \in VerifyInputs \ AdminStatuses :
             VerifyProperty("admin", p, st, 0)
             => /\ last'.result = "invalid"
                /\ UNCHANGED <<recs, props, hist>>]_vars

\* C25: a Sweeper run leaves alone every record an owner has successfully
\* responded to: it does not mark the record expired, and writes no
\* expiration entry (with its score penalty) on account of it.
RespondedNeverExpired ==
    [][\A r \in Ids :
          (recs[r].responder_id # NoUser /\ ProcessExpiredVerifications)
          => /\ recs'[r] = recs[r]
             /\ \A i \in DOMAIN hist' \ DOMAIN hist : hist'[i].rid # r]_vars

\* x <= y for two scores that are set.
ScoreLeq(x, y) == x.t < y.t \/ (x.t = y.t /\ (x.e => y.e))

\* 0 <= x <= 1 for a score that is set.
InUnit(x) == 0 <= x.t /\ ScoreLeq(x, Score(10, FALSE))

\* C26: a Sweeper run never raises a reliability_score that is set: the
\* score after the run is at most the score before it, exactly 0 included,
\* and it stays within [0, 1].
SweeperNeverRaises ==
    [][\A p \in DOMAIN props :
          (ProcessExpiredVerifications /\ props[p].reliability_score # NullScore)
          => /\ ScoreLeq(props'[p].reliability_score, props[p].reliability_score)
             /\ InUnit(props'[p].reliability_score)]_vars

\* The pending automatic records of property p.
PendingAutomatic(R, p) ==
    {r \in DOMAIN R : /\ R[r].property_id = p
                      /\ R[r].verification_type = "automatic"
                      /\ R[r].status = PENDING}

\* C27: a Scheduler run that directly follows a Scheduler run gives no
\* property a second pending automatic record.
SecondRunSkipsOutstanding ==
    [][(last.op = "schedule_automatic_verifications"
          /\ ScheduleAutomaticVerifications)
       => \A p \in DOMAIN props : Cardinality(PendingAutomatic(recs', p)) <= 1]_vars

RejectionKeepsLastVerified ==
    [][\A p \in DOMAIN props, st \in {"rejected", "pending_changes"},
          lag \in ClockLags :
          VerifyProperty("admin", p, st, lag)
          => /\ props'[p] = [props[p] EXCEPT !.verification_status = st]
             /\ (p \in PropertiesDue => p \in PropertiesDue')]_vars

\* C30: an owner response to a record that is still pending but whose
\* expiration is before now is refused on both owner paths and leaves the
\* records, the properties and the history as they were.
LateResponseRefused ==
    [][\A r \in Ids, a \in Responses, u \in Users :
          (/\ Due(r)
           /\ \/ ProcessVerificationResponse(r, a, u)
              \/ RespondToVerification(u, r, a))
          => /\ last'.result # "ok"
             /\ UNCHANGED <<recs, props, hist>>]_vars

====
